---- MODULE Spec2Model ----
(***************************************************************************)
(* A model of the Rev AI Python SDK's insight clients: the language        *)
(* identification client (src/rev_ai/language_identification_client.py)    *)
(* and, as far as its unit tests and the specification describe it, the    *)
(* sentiment analysis client and the generic client both are built on.     *)
(*                                                                         *)
(* Python values: None is the empty tuple and a present value v is <<v>>,  *)
(* so that an absent argument and a falsy one (0, '') stay distinct.       *)
(* A dict is a function from its keys.  A URL is the sequence of its       *)
(* '/'-separated segments: 'https://api.rev.ai/languageid/v1/' is          *)
(* <<"https:", "", "api.rev.ai", "languageid", "v1", "">>.                 *)
(***************************************************************************)
EXTENDS Integers, Sequences, FiniteSets, TLC

VARIABLES
    client,     \* None, or <<the constructed client object>>
    pc,         \* position of the running call: idle, with_open, awaiting, parse
    requests,   \* every HTTP request handed to the transport, in order
    outcome,    \* what the latest call returned or raised (pending while it runs)
    call,       \* the latest call: its method and its required argument
    frame,      \* the running call's locals that the rest of the call reads
    response,   \* the response the running call received (None before it)
    f,          \* the file handle of the running `with open(...)`: None = closed
    sent        \* HTTP requests issued by the latest call

vars == <<client, pc, requests, outcome, call, frame, response, f, sent>>

---------------------------------------------------------------------------
(* Bounds of the model *)

MaxRequests == 2
MaxFilters == 2

---------------------------------------------------------------------------
(* Python values *)

None == <<>>

Some(v) == <<v>>

\* `not x` for x a string or None
Falsy(x) == x = None \/ x = Some("")

\* '{}'.format(x) for x a string or None
Str(x) == IF x = None THEN "None" ELSE x[1]

RECURSIVE Join(_, _)
\* sep.join(parts)
Join(parts, sep) ==
    IF parts = <<>> THEN ""
    ELSE IF Len(parts) = 1 THEN parts[1]
    ELSE parts[1] \o sep \o Join(Tail(parts), sep)

\* urllib's urljoin(base, rel) for a relative path reference `rel` without
\* dot segments: the base's last segment is replaced by the reference.
urljoin(base, rel) == SubSeq(base, 1, Len(base) - 1) \o rel

ValueError(msg) == [kind |-> "ValueError", msg |-> msg]

---------------------------------------------------------------------------
(* Inputs the environment may supply *)

Tokens == {None, Some(""), Some("token"), Some("t2")}

MediaUrls == {None, Some(""), Some("http://x/a.mp3")}

ExistingFiles == {"a.mp3"}

Filenames == {None, Some(""), Some("a.mp3"), Some("missing.mp3")}

Metadatas == {None, Some("test")}

CallbackUrls == {None, Some("https://example.com/")}

DeleteAfters == {None, Some(0), Some(30)}

JobIds == {"1", "2"}

Statuses == {200, 404}

JobBody == [id |-> "1", status |-> "in_progress", created_on |-> "2018-05-05T23:23:22.29Z"]

LanguageBody == [top_language |-> "en"]

SentimentBody == [messages |-> <<[content |-> "random words", score |-> 1, sentiment |-> "negative", offset |-> 0, length |-> 12]>>]

Bodies == {JobBody, LanguageBody, SentimentBody}

---------------------------------------------------------------------------
(* The generic client *)

sdk_version == "__version__"

BaseClient_init(access_token) ==
    IF Falsy(access_token)
    THEN [ok |-> FALSE, error |-> ValueError("access_token must be provided")]
    ELSE [ok |-> TRUE,
          self |-> [default_headers |->
                        ("Authorization" :> ("Bearer " \o access_token[1])) @@
                        ("User-Agent" :> ("RevAi-PythonSDK/" \o sdk_version))]]

GenericApiClient_init(cls, access_token, api_name, api_version) ==
    LET base == BaseClient_init(access_token)
    IN  IF ~base.ok THEN base
        ELSE [ok |-> TRUE,
              self |-> [cls |-> cls,
                        default_headers |-> base.self.default_headers,
                        base_url |-> <<"https:", "", "api.rev.ai", api_name, api_version, "">>]]

\* payload with each of the three optional fields added when it is not None
_enhance_payload(payload, metadata, callback_url, delete_after_seconds) ==
    LET p1 == IF metadata # None THEN ("metadata" :> metadata[1]) @@ payload ELSE payload
        p2 == IF callback_url # None THEN ("callback_url" :> callback_url[1]) @@ p1 ELSE p1
    IN  IF delete_after_seconds # None
        THEN ("delete_after_seconds" :> delete_after_seconds[1]) @@ p2
        ELSE p2

\* The request the transport is handed: the client's default headers ride on it.
_make_http_request(self, method, url, json, files) ==
    [method |-> method, url |-> url, headers |-> self.default_headers,
     json |-> json, files |-> files]

\* raise_for_status
HTTPError(status) == status >= 400

---------------------------------------------------------------------------
(* Shared steps of a call *)

Pending == [kind |-> "pending"]

\* The call raises before anything was sent.
Raise(op, arg, err) ==
    /\ pc' = "idle"
    /\ outcome' = err
    /\ call' = [op |-> op, arg |-> arg]
    /\ sent' = 0
    /\ frame' = None
    /\ response' = None
    /\ UNCHANGED <<client, requests, f>>

\* The call hands one request to the transport and blocks on it.
Send(op, arg, locals, req) ==
    /\ pc' = "awaiting"
    /\ outcome' = Pending
    /\ call' = [op |-> op, arg |-> arg]
    /\ sent' = 1
    /\ frame' = Some(locals)
    /\ response' = None
    /\ requests' = Append(requests, req)
    /\ UNCHANGED <<client, f>>

\* POST {base_url}jobs with the payload as the JSON body
_submit_job(op, arg, locals, payload) ==
    Send(op, arg, [locals EXCEPT !.parse = "job"],
         _make_http_request(client[1], "POST",
                            urljoin(client[1].base_url, <<"jobs">>),
                            Some(payload), None))

\* ['k=v' for each parameter whose value is not None]
RECURSIVE query_params(_)
query_params(params) ==
    IF params = <<>> THEN <<>>
    ELSE LET kv == Head(params)
         IN  (IF kv[2] # None THEN <<kv[1] \o "=" \o kv[2][1]>> ELSE <<>>)
                 \o query_params(Tail(params))

\* 'jobs/{0}/result?{1}'.format(id_, '&'.join(query_params))
result_path(id_, params) ==
    <<"jobs", id_, "result?" \o Join(query_params(params), "&")>>

\* GET {base_url}jobs/{id}/result?{params}; the decoded body is returned as it is
_get_result_json(op, id_, locals, params) ==
    Send(op, Some(id_), [locals EXCEPT !.parse = "raw"],
         _make_http_request(client[1], "GET",
                            urljoin(client[1].base_url, result_path(id_, params)),
                            None, None))

\* the same request; the decoded body goes through the result deserializer
_get_result_object(op, id_, locals, params) ==
    Send(op, Some(id_), [locals EXCEPT !.parse = "object"],
         _make_http_request(client[1], "GET",
                            urljoin(client[1].base_url, result_path(id_, params)),
                            None, None))

---------------------------------------------------------------------------
(* Deserializers *)

DeserializationError == [kind |-> "DeserializationError"]

JobStatus == [created |-> "CREATED", in_progress |-> "IN_PROGRESS",
              transcribing |-> "TRANSCRIBING", completed |-> "COMPLETE",
              failed |-> "FAILED"]

Job_from_json(cls, json) ==
    IF {"id", "status", "created_on"} \subseteq DOMAIN json
       /\ json.status \in DOMAIN JobStatus
    THEN [kind |-> cls, id |-> json.id, created_on |-> json.created_on,
          status |-> JobStatus[json.status]]
    ELSE DeserializationError

LanguageIdentificationJob_from_json(json) ==
    Job_from_json("LanguageIdentificationJob", json)

LanguageIdentificationResult_from_json(json) ==
    IF "top_language" \in DOMAIN json
    THEN [kind |-> "LanguageIdentificationResult", top_language |-> json.top_language]
    ELSE DeserializationError

SentimentAnalysisResult_from_json(json) ==
    IF "messages" \in DOMAIN json
    THEN [kind |-> "SentimentAnalysisResult", messages |-> json.messages]
    ELSE DeserializationError

---------------------------------------------------------------------------
(* LanguageIdentificationClient *)

api_version == "v1"

api_name == "languageid"

\* the slip of passing the api name where the access token belongs
LanguageIdentificationClient_init_swapped(access_token) ==
    GenericApiClient_init("LanguageIdentificationClient", Some(api_name),
                          Str(access_token), api_version)

LanguageIdentificationClient_init(access_token) ==
    GenericApiClient_init("LanguageIdentificationClient", access_token,
                          api_name, api_version)

IsLanguageId == client # None /\ client[1].cls = "LanguageIdentificationClient"

\* the slip of passing callback_url and metadata in each other's place
submit_job_url_swapped(media_url, metadata, callback_url, delete_after_seconds) ==
    /\ pc = "idle"
    /\ IsLanguageId
    /\ Len(requests) < MaxRequests
    /\ IF Falsy(media_url)
       THEN Raise("submit_job_url", media_url, ValueError("media_url must be provided"))
       ELSE LET payload == _enhance_payload("media_url" :> media_url[1],
                                            callback_url, metadata, delete_after_seconds)
            IN  _submit_job("submit_job_url", media_url,
                            [metadata |-> metadata, callback_url |-> callback_url,
                             delete_after_seconds |-> delete_after_seconds,
                             parse |-> "job"],
                            payload)

\* the slip of leaving out the check of media_url
submit_job_url_unchecked(media_url, metadata, callback_url, delete_after_seconds) ==
    /\ pc = "idle"
    /\ IsLanguageId
    /\ Len(requests) < MaxRequests
    /\ LET payload == _enhance_payload("media_url" :> Str(media_url),
                                       metadata, callback_url, delete_after_seconds)
       IN  _submit_job("submit_job_url", media_url,
                       [metadata |-> metadata, callback_url |-> callback_url,
                        delete_after_seconds |-> delete_after_seconds,
                        parse |-> "job"],
                       payload)

submit_job_url(media_url, metadata, callback_url, delete_after_seconds) ==
    /\ pc = "idle"
    /\ IsLanguageId
    /\ Len(requests) < MaxRequests
    /\ IF Falsy(media_url)
       THEN Raise("submit_job_url", media_url, ValueError("media_url must be provided"))
       ELSE LET payload == _enhance_payload("media_url" :> media_url[1],
                                            metadata, callback_url, delete_after_seconds)
            IN  _submit_job("submit_job_url", media_url,
                            [metadata |-> metadata, callback_url |-> callback_url,
                             delete_after_seconds |-> delete_after_seconds,
                             parse |-> "job"],
                            payload)

\* the slip of delegating to the object variant
get_result_json_as_object(id_) ==
    /\ pc = "idle"
    /\ IsLanguageId
    /\ Len(requests) < MaxRequests
    /\ _get_result_object("get_result_json", id_, [parse |-> "object", filter_for |-> None], <<>>)

get_result_json(id_) ==
    /\ pc = "idle"
    /\ IsLanguageId
    /\ Len(requests) < MaxRequests
    /\ _get_result_json("get_result_json", id_, [parse |-> "raw", filter_for |-> None], <<>>)

get_result_object(id_) ==
    /\ pc = "idle"
    /\ IsLanguageId
    /\ Len(requests) < MaxRequests
    /\ _get_result_object("get_result_object", id_, [parse |-> "object", filter_for |-> None], <<>>)

\* the builtin open(filename, 'rb')
open(filename) ==
    IF filename \in ExistingFiles
    THEN [ok |-> TRUE, handle |-> Some(filename)]
    ELSE [ok |-> FALSE, error |-> [kind |-> "FileNotFoundError", filename |-> filename]]

\* a close() after the request instead of a `with`: skipped when the request raises
with_exit_no_finally(handle, raised) == IF raised THEN handle ELSE None

\* leaving the `with` block closes the file, whether the block raised or not
with_exit(handle, raised) == None

\* the keys a payload may hold, in sorted order
SortedKeys ==
    <<"callback_url", "delete_after_seconds", "json", "language", "media_url",
      "metadata", "text">>

\* json.dumps(payload, sort_keys=True): the members in key order
json_dumps(payload) ==
    LET keys == SelectSeq(SortedKeys, LAMBDA k : k \in DOMAIN payload)
    IN  [i \in 1..Len(keys) |-> <<keys[i], payload[keys[i]]>>]

\* the slip of posting the options before the file is opened
submit_job_local_file_posts_first(filename, metadata, callback_url, delete_after_seconds) ==
    /\ pc = "idle"
    /\ IsLanguageId
    /\ Len(requests) < MaxRequests
    /\ IF Falsy(filename)
       THEN Raise("submit_job_local_file", filename, ValueError("filename must be provided"))
       ELSE LET payload == _enhance_payload(<<>>, metadata, callback_url,
                                            delete_after_seconds)
                opened == open(filename[1])
            IN  /\ requests' = Append(requests,
                                      _make_http_request(client[1], "POST",
                                                         urljoin(client[1].base_url, <<"jobs">>),
                                                         Some(payload), None))
                /\ sent' = 1
                /\ call' = [op |-> "submit_job_local_file", arg |-> filename]
                /\ response' = None
                /\ UNCHANGED client
                /\ IF ~opened.ok
                   THEN /\ pc' = "idle"
                        /\ outcome' = opened.error
                        /\ frame' = None
                        /\ UNCHANGED f
                   ELSE /\ pc' = "awaiting"
                        /\ f' = opened.handle
                        /\ outcome' = Pending
                        /\ frame' = Some([metadata |-> metadata,
                                          callback_url |-> callback_url,
                                          delete_after_seconds |-> delete_after_seconds,
                                          payload |-> payload, parse |-> "job"])

\* validation, the payload, and the entry into `with open(filename, 'rb') as f`
submit_job_local_file(filename, metadata, callback_url, delete_after_seconds) ==
    /\ pc = "idle"
    /\ IsLanguageId
    /\ Len(requests) < MaxRequests
    /\ IF Falsy(filename)
       THEN Raise("submit_job_local_file", filename, ValueError("filename must be provided"))
       ELSE LET payload == _enhance_payload(<<>>, metadata, callback_url,
                                            delete_after_seconds)
                opened == open(filename[1])
            IN  IF ~opened.ok
                THEN Raise("submit_job_local_file", filename, opened.error)
                ELSE /\ pc' = "with_open"
                     /\ f' = opened.handle
                     /\ outcome' = Pending
                     /\ call' = [op |-> "submit_job_local_file", arg |-> filename]
                     /\ sent' = 0
                     /\ frame' = Some([metadata |-> metadata, callback_url |-> callback_url,
                                       delete_after_seconds |-> delete_after_seconds,
                                       payload |-> payload, parse |-> "job"])
                     /\ response' = None
                     /\ UNCHANGED <<client, requests>>

\* the slip of setting the multipart content type on the shared default headers
submit_job_local_file_request_sets_header ==
    /\ pc = "with_open"
    /\ LET files == [media |-> <<call.arg[1], f>>,
                     options |-> <<None, json_dumps(frame[1].payload)>>]
           changed == [client[1] EXCEPT !.default_headers =
                           ("Content-Type" :> "multipart/form-data") @@ @]
       IN  /\ client' = Some(changed)
           /\ requests' = Append(requests,
                                 _make_http_request(changed, "POST",
                                                    urljoin(client[1].base_url, <<"jobs">>),
                                                    None, Some(files)))
    /\ sent' = sent + 1
    /\ pc' = "awaiting"
    /\ UNCHANGED <<outcome, call, frame, response, f>>

\* the slip of posting the same parts a second time
submit_job_local_file_request_twice ==
    /\ pc = "with_open"
    /\ LET files == [media |-> <<call.arg[1], f>>,
                     options |-> <<None, json_dumps(frame[1].payload)>>]
           req == _make_http_request(client[1], "POST",
                                     urljoin(client[1].base_url, <<"jobs">>),
                                     None, Some(files))
       IN  requests' = requests \o <<req, req>>
    /\ sent' = sent + 2
    /\ pc' = "awaiting"
    /\ UNCHANGED <<client, outcome, call, frame, response, f>>

\* inside the `with` block: the multipart POST of the two parts
submit_job_local_file_request ==
    /\ pc = "with_open"
    /\ LET files == [media |-> <<call.arg[1], f>>,
                     options |-> <<None, json_dumps(frame[1].payload)>>]
       IN  requests' = Append(requests,
                              _make_http_request(client[1], "POST",
                                                 urljoin(client[1].base_url, <<"jobs">>),
                                                 None, Some(files)))
    /\ sent' = sent + 1
    /\ pc' = "awaiting"
    /\ UNCHANGED <<client, outcome, call, frame, response, f>>

\* the transport answers the multipart POST and control leaves the `with` block
submit_job_local_file_response(status, body) ==
    /\ pc = "awaiting"
    /\ call.op = "submit_job_local_file"
    /\ IF HTTPError(status)
       THEN /\ outcome' = [kind |-> "HTTPError", status |-> status]
            /\ pc' = "idle"
            /\ f' = with_exit(f, TRUE)
            /\ frame' = None
            /\ response' = None
       ELSE /\ response' = Some([status |-> status, body |-> body])
            /\ pc' = "parse"
            /\ f' = with_exit(f, FALSE)
            /\ frame' = Some([parse |-> frame[1].parse])
            /\ UNCHANGED outcome
    /\ UNCHANGED <<client, requests, call, sent>>

\* return LanguageIdentificationJob.from_json(response.json())
submit_job_local_file_return ==
    /\ pc = "parse"
    /\ call.op = "submit_job_local_file"
    /\ outcome' = LanguageIdentificationJob_from_json(response[1].body)
    /\ pc' = "idle"
    /\ frame' = None
    /\ response' = None
    /\ UNCHANGED <<client, requests, call, f, sent>>

---------------------------------------------------------------------------
(* The rest of a call that goes through the generic client *)

\* the transport answers: a non-2xx status raises HTTPError to the caller
http_response(status, body) ==
    /\ pc = "awaiting"
    /\ call.op # "submit_job_local_file"
    /\ IF HTTPError(status)
       THEN /\ outcome' = [kind |-> "HTTPError", status |-> status]
            /\ pc' = "idle"
            /\ frame' = None
            /\ response' = None
       ELSE /\ response' = Some([status |-> status, body |-> body])
            /\ pc' = "parse"
            /\ frame' = Some([parse |-> frame[1].parse])
            /\ UNCHANGED outcome
    /\ UNCHANGED <<client, requests, call, f, sent>>

parse_job_info(json) ==
    IF client[1].cls = "LanguageIdentificationClient"
    THEN LanguageIdentificationJob_from_json(json)
    ELSE Job_from_json("InsightsJob", json)

parse_job_result(json) ==
    IF client[1].cls = "LanguageIdentificationClient"
    THEN LanguageIdentificationResult_from_json(json)
    ELSE SentimentAnalysisResult_from_json(json)

\* the generic client returns: the job, the raw body, or the result object
return_result ==
    /\ pc = "parse"
    /\ call.op # "submit_job_local_file"
    /\ outcome' = CASE frame[1].parse = "job" -> parse_job_info(response[1].body)
                    [] frame[1].parse = "raw" -> [kind |-> "json", value |-> response[1].body]
                    [] frame[1].parse = "object" -> parse_job_result(response[1].body)
    /\ pc' = "idle"
    /\ frame' = None
    /\ response' = None
    /\ UNCHANGED <<client, requests, call, f, sent>>

---------------------------------------------------------------------------
(* SentimentAnalysisClient, as its unit tests and the specification give it *)

SentimentAnalysisClient_init(access_token) ==
    GenericApiClient_init("SentimentAnalysisClient", access_token,
                          "sentiment_analysis", "v1")

IsSentiment == client # None /\ client[1].cls = "SentimentAnalysisClient"

\* the members of the SentimentValue enumeration, in iteration order
SentimentValue == <<"NEGATIVE", "NEUTRAL", "POSITIVE">>

\* member.value: the wire string
SentimentValue_value ==
    [NEGATIVE |-> "negative", NEUTRAL |-> "neutral", POSITIVE |-> "positive"]

Members == {SentimentValue[i] : i \in DOMAIN SentimentValue}

Collections ==
    {s \in UNION {[1..n -> Members] : n \in 0..MaxFilters} :
        \A i, j \in DOMAIN s : s[i] = s[j] => i = j}
    \cup {SentimentValue}

\* a filter argument: None, one member, or a collection of members
FilterArgs ==
    {None} \cup {[member |-> m] : m \in Members}
           \cup {[members |-> s] : s \in Collections}

Texts == {None, Some(""), Some("Input")}

TranscriptDict ==
    [monologues |-> <<[speaker |-> 0,
                       elements |-> <<[type |-> "text", value |-> "hello",
                                       ts |-> "0.0", end_ts |-> "0.1",
                                       confidence |-> 100]>>]>>]

Transcripts == {None, Some(TranscriptDict)}

Languages == {Some("en")}

\* the slip of formatting the member itself instead of its value
to_filter_for_name(filter_for) ==
    IF filter_for = None THEN None
    ELSE IF "member" \in DOMAIN filter_for
         THEN Some("SentimentValue." \o filter_for.member)
    ELSE IF filter_for.members = <<>> THEN None
    ELSE Some("SentimentValue." \o filter_for.members[Len(filter_for.members)])

\* the slip of keeping the first member iterated
to_filter_for_first(filter_for) ==
    IF filter_for = None THEN None
    ELSE IF "member" \in DOMAIN filter_for
         THEN Some(SentimentValue_value[filter_for.member])
    ELSE IF filter_for.members = <<>> THEN None
    ELSE Some(SentimentValue_value[filter_for.members[1]])

\* the wire string of the filter: of the one member, or of the last member iterated
to_filter_for(filter_for) ==
    IF filter_for = None THEN None
    ELSE IF "member" \in DOMAIN filter_for
         THEN Some(SentimentValue_value[filter_for.member])
    ELSE IF filter_for.members = <<>> THEN None
    ELSE Some(SentimentValue_value[filter_for.members[Len(filter_for.members)]])

with_language(payload, language) ==
    IF language # None THEN ("language" :> language[1]) @@ payload ELSE payload

submit_job_from_text(text, metadata, callback_url, delete_after_seconds, language) ==
    /\ pc = "idle"
    /\ IsSentiment
    /\ Len(requests) < MaxRequests
    /\ IF Falsy(text)
       THEN Raise("submit_job_from_text", text, ValueError("text must be provided"))
       ELSE LET payload == _enhance_payload(with_language("text" :> text[1], language),
                                            metadata, callback_url, delete_after_seconds)
            IN  _submit_job("submit_job_from_text", text,
                            [metadata |-> metadata, callback_url |-> callback_url,
                             delete_after_seconds |-> delete_after_seconds,
                             parse |-> "job"],
                            payload)

submit_job_from_transcript(transcript, metadata, callback_url, delete_after_seconds, language) ==
    /\ pc = "idle"
    /\ IsSentiment
    /\ Len(requests) < MaxRequests
    /\ IF transcript = None
       THEN Raise("submit_job_from_transcript", transcript,
                  ValueError("transcript must be provided"))
       ELSE LET payload == _enhance_payload(with_language("json" :> transcript[1], language),
                                            metadata, callback_url, delete_after_seconds)
            IN  _submit_job("submit_job_from_transcript", transcript,
                            [metadata |-> metadata, callback_url |-> callback_url,
                             delete_after_seconds |-> delete_after_seconds,
                             parse |-> "job"],
                            payload)

SentimentAnalysisClient_get_result_json(id_, filter_for) ==
    /\ pc = "idle"
    /\ IsSentiment
    /\ Len(requests) < MaxRequests
    /\ _get_result_json("get_result_json", id_,
                        [parse |-> "raw", filter_for |-> filter_for],
                        << <<"filter_for", to_filter_for(filter_for)>> >>)

SentimentAnalysisClient_get_result_object(id_, filter_for) ==
    /\ pc = "idle"
    /\ IsSentiment
    /\ Len(requests) < MaxRequests
    /\ _get_result_object("get_result_object", id_,
                          [parse |-> "object", filter_for |-> filter_for],
                          << <<"filter_for", to_filter_for(filter_for)>> >>)

---------------------------------------------------------------------------
(* The program: one client is constructed, then its methods are called *)

Classes == {"LanguageIdentificationClient", "SentimentAnalysisClient"}

\* cls(access_token)
Construct(cls, access_token) ==
    /\ pc = "idle"
    /\ client = None
    /\ LET made == IF cls = "LanguageIdentificationClient"
                   THEN LanguageIdentificationClient_init(access_token)
                   ELSE SentimentAnalysisClient_init(access_token)
       IN  /\ client' = IF made.ok THEN Some(made.self) ELSE None
           /\ outcome' = IF made.ok THEN [kind |-> cls] ELSE made.error
    /\ call' = [op |-> "__init__", arg |-> access_token]
    /\ sent' = 0
    /\ UNCHANGED <<pc, requests, frame, response, f>>

Init ==
    /\ client = None
    /\ pc = "idle"
    /\ requests = <<>>
    /\ outcome = [kind |-> "none"]
    /\ call = [op |-> "none", arg |-> None]
    /\ frame = None
    /\ response = None
    /\ f = None
    /\ sent = 0

Next ==
    \/ \E cls \in Classes, t \in Tokens : Construct(cls, t)
    \/ \E u \in MediaUrls, m \in Metadatas, c \in CallbackUrls, d \in DeleteAfters :
          submit_job_url(u, m, c, d)
    \/ \E n \in Filenames, m \in Metadatas, c \in CallbackUrls, d \in DeleteAfters :
          submit_job_local_file(n, m, c, d)
    \/ submit_job_local_file_request
    \/ \E s \in Statuses, b \in Bodies : submit_job_local_file_response(s, b)
    \/ submit_job_local_file_return
    \/ \E i \in JobIds : get_result_json(i)
    \/ \E i \in JobIds : get_result_object(i)
    \/ \E t \in Texts, m \in Metadatas, c \in CallbackUrls, d \in DeleteAfters,
          l \in Languages : submit_job_from_text(t, m, c, d, l)
    \/ \E t \in Transcripts, m \in Metadatas, c \in CallbackUrls, d \in DeleteAfters,
          l \in Languages : submit_job_from_transcript(t, m, c, d, l)
    \/ \E i \in JobIds, ff \in FilterArgs : SentimentAnalysisClient_get_result_json(i, ff)
    \/ \E i \in JobIds, ff \in FilterArgs : SentimentAnalysisClient_get_result_object(i, ff)
    \/ \E s \in Statuses, b \in Bodies : http_response(s, b)
    \/ return_result

Spec == Init /\ [][Next]_vars

---------------------------------------------------------------------------
(* Properties *)

Last(seq) == seq[Len(seq)]

\* the base URL each class is documented to have
ExpectedBase ==
    IF client[1].cls = "LanguageIdentificationClient"
    THEN <<"https:", "", "api.rev.ai", "languageid", "v1">>
    ELSE <<"https:", "", "api.rev.ai", "sentiment_analysis", "v1">>

ExpectedWire(m) ==
    CASE m = "NEGATIVE" -> "negative"
      [] m = "NEUTRAL" -> "neutral"
      [] m = "POSITIVE" -> "positive"

JsonSubmissions == {"submit_job_url", "submit_job_from_text", "submit_job_from_transcript"}

ResultCalls == {"get_result_json", "get_result_object"}

\* C1: constructing a client with a None or empty access token raises
\* ValueError('access_token must be provided'); no client object exists
\* afterwards and no HTTP request has been issued.
C1_NoTokenNoClient ==
    (call.op = "__init__" /\ Falsy(call.arg)) =>
        /\ outcome = [kind |-> "ValueError", msg |-> "access_token must be provided"]
        /\ client = None
        /\ requests = <<>>
        /\ sent = 0

C1_Witness ==
    /\ call.op = "__init__"
    /\ call.arg = Some("")
    /\ outcome.kind = "ValueError"

C2_State ==
    /\ (call.op = "__init__" /\ ~Falsy(call.arg)) =>
           /\ client # None
           /\ client[1].default_headers["Authorization"] = "Bearer " \o call.arg[1]
    /\ client # None =>
           /\ client[1].base_url = ExpectedBase \o <<"">>
           /\ DOMAIN client[1].default_headers = {"Authorization", "User-Agent"}
           /\ \A i \in DOMAIN requests :
                  requests[i].headers = client[1].default_headers

\* C2: a client constructed with a non-empty token T has Authorization equal to
\* 'Bearer ' + T; no later step of any operation, succeeding or failing, changes
\* the client's default headers or base_url, and every request issued carries
\* exactly the default headers.
C2_HeadersFixed ==
    /\ []C2_State
    /\ [][client # None => client' = client]_vars

C2_Witness ==
    /\ Len(requests) = 2
    /\ pc = "idle"
    /\ outcome.kind = "HTTPError"
    /\ client[1].default_headers["Authorization"] = "Bearer t2"
    /\ requests[1].method = "POST"
    /\ requests[2].method = "GET"

OptionalFieldOk(body, key, given) ==
    IF given = None
    THEN key \notin DOMAIN body
    ELSE key \in DOMAIN body /\ body[key] = given[1]

\* C3: when a JSON submission (submit_job_url, submit_job_from_text,
\* submit_job_from_transcript) has issued its request, each of metadata,
\* callback_url and delete_after_seconds is absent from the JSON body if the
\* caller passed None and present with the caller's value otherwise, 0 included.
C3_OptionalFields ==
    (pc = "awaiting" /\ call.op \in JsonSubmissions) =>
        LET body == Last(requests).json[1]
            given == frame[1]
        IN  /\ OptionalFieldOk(body, "metadata", given.metadata)
            /\ OptionalFieldOk(body, "callback_url", given.callback_url)
            /\ OptionalFieldOk(body, "delete_after_seconds", given.delete_after_seconds)

C3_Witness ==
    /\ pc = "awaiting"
    /\ call.op = "submit_job_url"
    /\ frame[1].metadata = None
    /\ frame[1].callback_url = Some("https://example.com/")
    /\ frame[1].delete_after_seconds = Some(0)
    /\ Last(requests).json[1]["delete_after_seconds"] = 0

C4_Request ==
    (pc = "awaiting" /\ call.op = "get_result_json" /\ frame[1].filter_for = None) =>
        Last(requests) = [method |-> "GET",
                          url |-> ExpectedBase \o <<"jobs", call.arg[1], "result?">>,
                          headers |-> client[1].default_headers,
                          json |-> None, files |-> None]

C5_SingleFilter ==
    (pc = "awaiting" /\ IsSentiment /\ call.op \in ResultCalls) =>
        LET ff == frame[1].filter_for
            req == Last(requests)
        IN  /\ req.method = "GET"
            /\ (ff # None /\ "member" \in DOMAIN ff) =>
                   req.url = ExpectedBase \o
                       <<"jobs", call.arg[1], "result?filter_for=" \o ExpectedWire(ff.member)>>
            /\ ff = None =>
                   req.url = ExpectedBase \o <<"jobs", call.arg[1], "result?">>

C5_Witness ==
    /\ pc = "awaiting"
    /\ IsSentiment
    /\ call.op = "get_result_json"
    /\ frame[1].filter_for = [member |-> "NEGATIVE"]
    /\ Last(Last(requests).url) = "result?filter_for=negative"

C7_MissingFile ==
    /\ (call.op = "submit_job_local_file" /\ ~Falsy(call.arg)
        /\ call.arg[1] \notin ExistingFiles) =>
           /\ outcome = [kind |-> "FileNotFoundError", filename |-> call.arg[1]]
           /\ pc = "idle"
           /\ sent = 0
           /\ f = None
    /\ outcome.kind = "FileNotFoundError" =>
           /\ call.op = "submit_job_local_file"
           /\ sent = 0
           /\ \A i \in DOMAIN requests :
                  requests[i].files # None => requests[i].files[1].media[1] \in ExistingFiles

C7_Witness ==
    /\ call = [op |-> "submit_job_local_file", arg |-> Some("missing.mp3")]
    /\ outcome.kind = "FileNotFoundError"
    /\ Len(requests) = 1

\* C8: submit_job_url with a None or empty media_url, and submit_job_local_file
\* with a None or empty filename, raise ValueError naming the argument, with no
\* file opened and no HTTP request issued.
C8_RequiredArguments ==
    /\ (call.op = "submit_job_url" /\ Falsy(call.arg)) =>
           /\ outcome = [kind |-> "ValueError", msg |-> "media_url must be provided"]
           /\ pc = "idle" /\ sent = 0 /\ f = None
    /\ (call.op = "submit_job_local_file" /\ Falsy(call.arg)) =>
           /\ outcome = [kind |-> "ValueError", msg |-> "filename must be provided"]
           /\ pc = "idle" /\ sent = 0 /\ f = None

C8_Witness ==
    /\ call = [op |-> "submit_job_local_file", arg |-> Some("")]
    /\ outcome.kind = "ValueError"
    /\ Len(requests) = 1

Operations ==
    {"submit_job_url", "submit_job_local_file", "get_result_json", "get_result_object"}

C9_State ==
    /\ sent <= 1
    /\ call.op \in Operations =>
           /\ outcome.kind \in {"ValueError", "FileNotFoundError"} => sent = 0
           /\ (pc = "idle" /\ outcome.kind \notin {"ValueError", "FileNotFoundError"}) =>
                  sent = 1
           /\ pc \in {"awaiting", "parse"} => sent = 1
    /\ response # None => response[1].status < 400

\* C9: each operation issues at most one HTTP request: one once validation and
\* the file open have succeeded, none otherwise; a request is issued only on
\* the way into the blocking call, and a call that ends while blocked on it
\* ends with HTTPError without another request.
C9_SingleAttempt ==
    /\ []C9_State
    /\ [][/\ Len(requests') <= Len(requests) + 1
          /\ requests' # requests =>
                 (pc \in {"idle", "with_open"} /\ pc' = "awaiting")
          /\ (pc = "awaiting" /\ pc' = "idle") =>
                 (outcome'.kind = "HTTPError" /\ requests' = requests)]_vars

C9_Witness ==
    /\ call.op = "submit_job_local_file"
    /\ outcome.kind = "HTTPError"
    /\ sent = 1
    /\ Len(requests) = 2

\* C10: in submit_job_local_file the file handle is open when the multipart POST
\* is sent and while it is outstanding, and it is closed once the call has the
\* response, has returned a Job or has failed; the response is deserialized
\* only with the handle closed.
C10_HandleReleased ==
    call.op = "submit_job_local_file" =>
        /\ pc = "awaiting" =>
               /\ f = call.arg
               /\ Last(requests).files[1].media = <<call.arg[1], call.arg>>
        /\ pc \in {"parse", "idle"} => f = None
        /\ outcome.kind \in {"LanguageIdentificationJob", "HTTPError",
                             "DeserializationError", "ValueError",
                             "FileNotFoundError"} => f = None

C10_Witness ==
    /\ call.op = "submit_job_local_file"
    /\ outcome.kind = "HTTPError"
    /\ f = None
    /\ Len(requests) = 1

====
